---- MODULE Spec2Model ----
(***************************************************************************)
(* Model of present_perfect_quiz.py: an interactive grammar quiz.  Strings *)
(* that the program inspects character by character (input lines, option   *)
(* labels, accepted answers) are sequences of one-character strings;       *)
(* strings it only stores or prints (titles, keys) are TLA+ strings.       *)
(***************************************************************************)
EXTENDS Integers, Sequences, FiniteSets, TLC

(***************************************************************************)
(* Bounds                                                                  *)
(***************************************************************************)
\* most scored runs one session starts (the clock counts the saves)
MaxRuns == 2
\* longest history drawn for the score-function specification
MaxLen == 3
\* largest total of a drawn score entry
MaxTotal == 2
\* largest |max_questions| drawn for the runner specification
MaxN == 3
\* most prompts logged for one multiple-choice question
MaxPrompts == 3
\* longest input line drawn for the answer-matching specification
MaxLine == 3
\* most calls of export_wrong_answers in the export specification
MaxExports == 4

(***************************************************************************)
(* Strings                                                                 *)
(***************************************************************************)
Range(s) == {s[i] : i \in 1..Len(s)}

IsSpace(c) == c = " "

Digits == {"0", "1", "2", "3", "4", "5", "6", "7", "8", "9"}

DigitVal(c) ==
    CASE c = "0" -> 0 [] c = "1" -> 1 [] c = "2" -> 2 [] c = "3" -> 3
      [] c = "4" -> 4 [] c = "5" -> 5 [] c = "6" -> 6 [] c = "7" -> 7
      [] c = "8" -> 8 [] c = "9" -> 9

\* str.lower() on one character
LowerChar(c) ==
    CASE c = "A" -> "a" [] c = "B" -> "b" [] c = "Y" -> "y" [] c = "N" -> "n"
      [] OTHER -> c

\* str.lower()
Lower(s) == [i \in 1..Len(s) |-> LowerChar(s[i])]

RECURSIVE LStrip(_)
LStrip(s) == IF s # <<>> /\ IsSpace(Head(s)) THEN LStrip(Tail(s)) ELSE s

RECURSIVE RStrip(_)
RStrip(s) ==
    IF s # <<>> /\ IsSpace(s[Len(s)]) THEN RStrip(SubSeq(s, 1, Len(s) - 1)) ELSE s

\* str.strip()
Strip(s) == RStrip(LStrip(s))

\* value of a non-empty digit string, most significant digit first
RECURSIVE DigitsVal(_)
DigitsVal(s) ==
    IF s = <<>> THEN 0
    ELSE 10 * DigitsVal(SubSeq(s, 1, Len(s) - 1)) + DigitVal(s[Len(s)])

\* an int() whose ValueError is swallowed and read as the choice 1
ParseIntDefault(s) ==
    LET t == Strip(s) IN
    IF t # <<>> /\ Range(t) \subseteq Digits
    THEN [ok |-> TRUE, val |-> DigitsVal(t)]
    ELSE [ok |-> TRUE, val |-> 1]

\* int(s): surrounding whitespace and one sign are allowed; anything else
\* raises ValueError
ParseInt(s) ==
    LET t == Strip(s)
        signed == t # <<>> /\ Head(t) \in {"+", "-"}
        body == IF signed THEN Tail(t) ELSE t
    IN  IF body # <<>> /\ Range(body) \subseteq Digits
        THEN [ok |-> TRUE,
              val |-> IF signed /\ Head(t) = "-" THEN 0 - DigitsVal(body)
                      ELSE DigitsVal(body)]
        ELSE [ok |-> FALSE, val |-> 0]

\* input(...).strip().lower().startswith("y")
StartsWithY(line) ==
    LET t == Lower(Strip(line)) IN t # <<>> /\ Head(t) = "y"

\* s.split(): the maximal runs of non-space characters
RECURSIVE Split(_)
Split(s) ==
    LET t == LStrip(s) IN
    IF t = <<>> THEN <<>>
    ELSE LET n == IF \E i \in 1..Len(t) : IsSpace(t[i])
                  THEN (CHOOSE i \in 1..Len(t) :
                            IsSpace(t[i]) /\ \A j \in 1..(i - 1) : ~IsSpace(t[j])) - 1
                  ELSE Len(t)
         IN  <<SubSeq(t, 1, n)>> \o Split(SubSeq(t, n + 1, Len(t)))

\* " ".join(words)
RECURSIVE Join(_)
Join(ws) ==
    IF ws = <<>> THEN <<>>
    ELSE IF Len(ws) = 1 THEN ws[1]
    ELSE ws[1] \o <<" ">> \o Join(Tail(ws))

\* every pair of spaces replaced by one space, left to right, in one pass
RECURSIVE ReplacePairs(_)
ReplacePairs(s) ==
    IF Len(s) < 2 THEN s
    ELSE IF IsSpace(s[1]) /\ IsSpace(s[2])
    THEN <<" ">> \o ReplacePairs(SubSeq(s, 3, Len(s)))
    ELSE <<s[1]>> \o ReplacePairs(Tail(s))

\* a normalisation written as s.lower().replace("  ", " ")
normalize_replace_once(s) == ReplacePairs(Lower(s))

normalize_answer(s) == Join(Split(Lower(Strip(s))))

\* a matcher that looks at the first accepted answer only
answer_matches_first(user_answer, accepted_answers) ==
    /\ accepted_answers # <<>>
    /\ normalize_answer(user_answer) = normalize_answer(accepted_answers[1])

answer_matches(user_answer, accepted_answers) ==
    \E k \in 1..Len(accepted_answers) :
        normalize_answer(user_answer) = normalize_answer(accepted_answers[k])

None == [none |-> TRUE, v |-> 0]
Some(n) == [none |-> FALSE, v |-> n]

(***************************************************************************)
(* Questions                                                               *)
(***************************************************************************)
McQ(labels, correct) ==
    [type |-> "mc", options |-> labels, correct_option |-> correct, answers |-> <<>>]

OpenQ(accepted) ==
    [type |-> "open", options |-> {}, correct_option |-> <<>>, answers |-> accepted]

\* the question records of the modelled question bank and curricula, by name
QuestionIds == {"q1", "q2", "q3", "m1", "m2", "m3", "o1", "o2", "o3"}

Q(id) ==
    CASE id = "q1" -> McQ({<<"a">>, <<"b">>}, <<"a">>)
      [] id = "q2" -> OpenQ(<<<<"a", " ", "b">>>>)
      [] id = "q3" -> McQ({<<"a">>, <<"b">>}, <<"b">>)
      [] id = "m1" -> McQ({<<"a">>, <<"b">>, <<"c">>}, <<"c">>)
      [] id = "m2" -> McQ({<<"A">>, <<"B">>}, <<"A">>)
      [] id = "m3" -> McQ({<<"1">>, <<"2">>}, <<"2">>)
      [] id = "o1" -> OpenQ(<<<<"a", " ", "b">>, <<"B">>>>)
      [] id = "o2" -> OpenQ(<<>>)
      [] id = "o3" -> OpenQ(<<<<" ", "A", " ", " ", "b">>>>)

\* ask_mc_question on one input line: whether the prompt loop ends and, if
\* so, whether the answer is correct
ask_mc_question(q, line) ==
    LET user_answer == Lower(Strip(line))
    IN  [accepted |-> user_answer \in q.options,
         correct |-> user_answer = q.correct_option]

\* ask_open_question reads exactly one line
ask_open_question(q, line) ==
    [accepted |-> TRUE, correct |-> answer_matches(Strip(line), q.answers)]

\* the dispatch on the type tag made by run_set, retry_wrong, run_check and
\* run_practice_section
Ask(q, line) ==
    IF q.type = "mc" THEN ask_mc_question(q, line) ELSE ask_open_question(q, line)

(***************************************************************************)
(* Score history                                                           *)
(***************************************************************************)
Missing == [kind |-> "missing", history |-> <<>>]
Corrupt == [kind |-> "corrupt", history |-> <<>>]
Stored(h) == [kind |-> "ok", history |-> h]

Entry(set_id, set_title, score, total, date) ==
    [set_id |-> set_id, set_title |-> set_title, score |-> score, total |-> total,
     date |-> date]

\* load_scores: a missing or undecodable file reads as an empty history
load_scores(file) == IF file.kind = "ok" THEN file.history ELSE <<>>

\* save_score that writes the new entry without the loaded history
save_score_overwrite(file, set_id, set_title, score, total, now) ==
    Stored(<<Entry(set_id, set_title, score, total, now)>>)

\* save_score: read, append one entry, rewrite the whole file
save_score(file, set_id, set_title, score, total, now) ==
    Stored(Append(load_scores(file), Entry(set_id, set_title, score, total, now)))

NoPair == [none |-> TRUE, s |-> 0, t |-> 0]
Pair(s, t) == [none |-> FALSE, s |-> s, t |-> t]
NoStats == [last |-> NoPair, best |-> NoPair]

\* (s / t) > (b.s / b.t) on floats: for the small integers scored here the
\* rounded quotients compare as the exact ratios do; a zero divisor raises
DivisionRaises(s, t, b) == t = 0 \/ b.t = 0

\* a comparison of the scores instead of the ratios
RatioGreaterRaw(s, t, b) == s > b.s

\* a comparison with >= in place of >
RatioGreaterOrEqual(s, t, b) == s * b.t >= b.s * t

RatioGreater(s, t, b) == s * b.t > b.s * t

\* a last that is set for the first entry of a key only
LastAfterFirst(last, s, t) == IF last.none THEN Pair(s, t) ELSE last

\* last = (s, t), for every entry
LastAfter(last, s, t) == Pair(s, t)

\* one iteration of the loop over the history
ScanEntry(result, entry) ==
    LET sid == entry.set_id
        known == IF sid \in DOMAIN result.map THEN result.map
                 ELSE [k \in DOMAIN result.map \cup {sid} |->
                          IF k = sid THEN NoStats ELSE result.map[k]]
        best == known[sid].best
        s == entry.score
        t == entry.total
    IN  IF result.err THEN result
        ELSE IF ~best.none /\ DivisionRaises(s, t, best)
        THEN [err |-> TRUE, map |-> known]
        ELSE [err |-> FALSE,
              map |-> [known EXCEPT ![sid] =
                          [last |-> LastAfter(known[sid].last, s, t),
                           best |-> IF best.none \/ RatioGreater(s, t, best)
                                    THEN Pair(s, t) ELSE best]]]

RECURSIVE ScanHistory(_, _)
ScanHistory(result, history) ==
    IF history = <<>> THEN result
    ELSE ScanHistory(ScanEntry(result, Head(history)), Tail(history))

\* get_last_and_best: err stands for the ZeroDivisionError leaving the function
get_last_and_best(set_keys, file) ==
    ScanHistory([err |-> FALSE, map |-> [k \in set_keys \cup {"all"} |-> NoStats]],
                load_scores(file))

(***************************************************************************)
(* The files a session reads                                               *)
(***************************************************************************)
QSet(set_id, title, summary, questions) ==
    [set_id |-> set_id, title |-> title, summary |-> summary, questions |-> questions]

Topic(id, title, curriculum, questions_key) ==
    [id |-> id, title |-> title, curriculum |-> curriculum,
     questions_key |-> questions_key]

\* module-level current_topic before any topic is chosen
DefaultTopic ==
    Topic("", "Present Perfect Simple vs Continuous", "curriculum.json", "sets")

Absent == [kind |-> "missing"]
Invalid == [kind |-> "invalid"]

\* a question bank: key -> ordered sets (a dict keeps insertion order)
Bank(sets, sets2) == [kind |-> "ok", sets |-> sets, sets2 |-> sets2]
Manifest(topics) == [kind |-> "ok", topics |-> topics]

Section(title, questions) == [present |-> TRUE, title |-> title, questions |-> questions]
NoSection == [present |-> FALSE, title |-> "", questions |-> <<>>]

PracticeKeys == {"gapfill", "errorcorrection", "makesentence", "makequestion"}
DefaultOrder == <<"gapfill", "errorcorrection", "makesentence", "makequestion">>

Curriculum(intro, check, practice, practice_order) ==
    [kind |-> "ok", intro |-> intro, check |-> check, practice |-> practice,
     practice_order |-> practice_order]

SetsA == <<QSet("s1", "Set 1", "rule", <<"q1">>), QSet("s2", "Set 2", "", <<"q2">>)>>
SetsB == <<QSet("t1", "Topic 2 set", "", <<"q2">>)>>
SetsC == <<QSet("u1", "Two questions", "", <<"q2", "q3">>)>>

\* a full course: one intro section, a one-question check, two practice
\* sections with questions and, between them, one without
CurA ==
    Curriculum(1, <<"q1">>,
               [k \in PracticeKeys |->
                   CASE k = "gapfill" -> Section("Gap fill", <<"q2", "q3">>)
                     [] k = "errorcorrection" -> Section("Error correction", <<>>)
                     [] k = "makesentence" -> Section("Make sentences", <<"q1">>)
                     [] OTHER -> NoSection],
               <<"gapfill", "errorcorrection", "makesentence">>)
\* a course with neither intro sections, check questions nor practice
CurB == Curriculum(0, <<>>, [k \in PracticeKeys |-> NoSection], <<>>)

TopicA == Topic("pp", "Present Perfect", "curriculum.json", "sets")
TopicB == Topic("pc", "Past Continuous", "c2.json", "sets2")

Files(manifest, questions, curA, curB) ==
    [manifest |-> manifest, questions |-> questions,
     curricula |-> [n \in {"curriculum.json", "c2.json"} |->
                       IF n = "curriculum.json" THEN curA ELSE curB]]

\* the installations a session is started in
Installations ==
    { Files(Absent, Bank(SetsA, SetsB), CurA, Absent),
      Files(Absent, Bank(SetsA, SetsB), Absent, Absent),
      Files(Absent, Bank(SetsB, <<>>), Invalid, Absent),
      Files(Absent, Invalid, CurB, Absent),
      Files(Absent, Absent, Absent, Absent),
      Files(Invalid, Bank(SetsA, SetsB), CurA, Absent),
      Files(Manifest(<<>>), Bank(SetsC, SetsB), Absent, Absent),
      Files(Manifest(<<TopicA>>), Bank(SetsB, <<>>), CurB, Absent),
      Files(Manifest(<<TopicA, TopicB>>), Bank(SetsA, SetsB), Absent, CurB) }

\* score files left by earlier sessions
InitialScores ==
    { Missing, Corrupt, Stored(<<>>), Stored(<<Entry("s1", "Set 1", 1, 1, 0)>>) }

\* load_questions() of the whole file, with __main__'s handlers: a missing or
\* invalid bank is reported and read as {}
AllData(files) ==
    IF files.questions.kind = "ok" THEN files.questions ELSE Bank(<<>>, <<>>)

\* all_data.get(key, {})
SetsOf(all_data, key) ==
    CASE key = "sets" -> all_data.sets
      [] key = "sets2" -> all_data.sets2
      [] OTHER -> <<>>

\* (BASE_DIR / current_topic["curriculum"]).exists()
CurriculumExists(files, topic) == files.curricula[topic.curriculum].kind # "missing"

\* "part2_" + key
Part2Id(key) ==
    CASE key = "gapfill" -> "part2_gapfill"
      [] key = "errorcorrection" -> "part2_errorcorrection"
      [] key = "makesentence" -> "part2_makesentence"
      [] key = "makequestion" -> "part2_makequestion"

\* random.shuffle: every ordering of the list
Shuffles(qs) ==
    LET n == Len(qs)
        perms == {p \in [1..n -> 1..n] : \A i, j \in 1..n : i # j => p[i] # p[j]}
    IN  {[i \in 1..n |-> qs[p[i]]] : p \in perms}

\* a slice that keeps one question too many
SliceToInclusive(qs, n) ==
    SubSeq(qs, 1, IF n >= 0 THEN (IF n + 1 < Len(qs) THEN n + 1 ELSE Len(qs)) ELSE 0)

\* qs[:n] for n >= 0 and for n < 0
SliceTo(qs, n) ==
    IF n >= 0 THEN SubSeq(qs, 1, IF n < Len(qs) THEN n ELSE Len(qs))
    ELSE SubSeq(qs, 1, IF Len(qs) + n > 0 THEN Len(qs) + n ELSE 0)

\* the question list run_set works on: a copy, shuffled on request, then cut
RunSetQuestions(questions, shuffle, max_questions) ==
    LET cut(qs) == IF ~max_questions.none /\ max_questions.v < Len(qs)
                   THEN SliceTo(qs, max_questions.v) ELSE qs
    IN  {cut(qs) : qs \in IF shuffle THEN Shuffles(questions) ELSE {questions}}

\* run_set's list before the cut (shuffled, the object random.shuffle
\* reordered) and after it (qs, a new object made by the slice)
RunSetOutcomes(questions, shuffle, max_questions) ==
    {[shuffled |-> o, qs |-> CHOOSE c \in RunSetQuestions(o, FALSE, max_questions) : TRUE] :
        o \in IF shuffle THEN Shuffles(questions) ELSE {questions}}

\* List objects.  A list variable names an object: a loaded one, known by
\* the set_id or the section key it is stored under, or "new", one built by
\* the running call.  random.shuffle reorders the object it is given.

\* qs = questions: the same object under another name
SameList(origin) == origin

\* list(questions): a new object with the same items
ListCopy(origin) == "new"

\* the loaded sets after the object target was reordered to shuffled
ShuffledSets(sd, target, shuffled) ==
    [n \in 1..Len(sd) |->
        IF sd[n].set_id = target THEN [sd[n] EXCEPT !.questions = shuffled]
        ELSE sd[n]]

\* the loaded curriculum after the object target was reordered to shuffled
ShuffledSection(cur, target, shuffled) ==
    IF target \in PracticeKeys
    THEN [cur EXCEPT !.practice[target].questions = shuffled]
    ELSE cur

\* a retry list built from the wrong indices in reverse
PickReversed(questions_list, wrong_indices) ==
    [k \in 1..Len(wrong_indices) |->
        questions_list[wrong_indices[Len(wrong_indices) + 1 - k] + 1]]

\* [questions_list[i] for i in wrong_indices]
Pick(questions_list, wrong_indices) ==
    [k \in 1..Len(wrong_indices) |-> questions_list[wrong_indices[k] + 1]]

Min(a, b) == IF a < b THEN a ELSE b
Max(a, b) == IF a > b THEN a ELSE b

(***************************************************************************)
(* State                                                                   *)
(***************************************************************************)
VARIABLES
    files,              \* manifest, question bank and curricula on disk
    scoresFile,         \* SCORES_FILE
    reviewFile,         \* REVIEW_FILE
    clock,              \* datetime.now(), as a counter
    pc,                 \* the input() call the session is blocked on
    status,             \* how the process ended: SystemExit code or exception
    current_topic,      \* module-level current_topic
    sets_data,          \* __main__'s sets_data
    stats,              \* main_menu's stats
    set_questions,      \* main_menu's locals
    combined_title,
    set_id_for_scores,
    max_q,
    qs,                 \* the runner's as-run question list
    i,                  \* the runner's loop index
    score,
    wrong_indices,
    to_retry,           \* retry_wrong's locals
    ri,
    curriculum,         \* run_part1 / run_part2 locals
    sec,
    order,
    k,
    total_score,
    total_questions,
    lastPrompt,         \* history: the prompt the last line was read at
    lastInput,          \* history: that line, when the prompt was a menu
    answered,           \* history: question and verdict of each answer of the run
    retryLog,           \* history: what the current retry was given and has shown
    askLog              \* history: lines read by one ask_mc_question call

envVars == <<files>>
diskVars == <<scoresFile, reviewFile, clock>>
topicVars == <<current_topic, sets_data>>
menuVars == <<set_questions, combined_title, set_id_for_scores, max_q>>
runVars == <<qs, i, score, wrong_indices, answered>>
retryVars == <<to_retry, ri, retryLog>>
partVars == <<curriculum, sec, order, k, total_score, total_questions>>
histVars == <<lastPrompt, lastInput>>
vars == <<files, scoresFile, reviewFile, clock, pc, status, current_topic, sets_data,
          stats, set_questions, combined_title, set_id_for_scores, max_q, qs, i,
          score, wrong_indices, to_retry, ri, curriculum, sec, order, k, total_score,
          total_questions, lastPrompt, lastInput, answered, retryLog, askLog>>

\* REVIEW_FILE as the sequence of its line groups: the five header lines are
\* one HeaderLines element, the eight lines of a question one BlockLines element
NoReview == [kind |-> "missing", lines |-> <<>>]
HeaderLines(set_title, now) == [kind |-> "header", title |-> set_title, date |-> now, q |-> ""]
BlockLines(id) == [kind |-> "block", title |-> "", date |-> 0, q |-> id]
NoStatsResult == [err |-> FALSE, map |-> [x \in {"all"} |-> NoStats]]
NoRetry == [active |-> FALSE, done |-> FALSE, questions |-> <<>>, wrong |-> <<>>,
            shown |-> <<>>, before |-> Missing]
NoCurriculum == Curriculum(0, <<>>, [x \in PracticeKeys |-> NoSection], <<>>)

\* the lines typed at the prompts
MenuLines ==
    { <<>>, <<"0">>, <<"1">>, <<"2">>, <<"3">>, <<"4">>, <<"x">>, <<"-", "1">>,
      <<" ", "2">> }
CountLines == { <<>>, <<"0">>, <<"1">>, <<"2">>, <<"9">>, <<"x">>, <<"-", "1">> }
AnswerLines == { <<"a">>, <<"B">>, <<"x">>, <<"A", " ", " ", "b">> }
YesNoLines == { <<"y">>, <<"n">>, <<>> }
EnterLines == { <<>> }

MenuPrompts == {"topic_menu", "mode_menu", "set_menu"}

\* locals that are not in scope yet
MenuInit ==
    /\ set_questions = <<>> /\ combined_title = "" /\ set_id_for_scores = ""
    /\ max_q = None
RunInit == qs = <<>> /\ i = 0 /\ score = 0 /\ wrong_indices = <<>> /\ answered = <<>>
RetryInit == to_retry = <<>> /\ ri = 0 /\ retryLog = NoRetry
PartInit ==
    /\ curriculum = NoCurriculum /\ sec = 0 /\ order = <<>> /\ k = 0
    /\ total_score = 0 /\ total_questions = 0
LogInit == lastPrompt = "" /\ lastInput = <<>> /\ askLog = <<>>

LocalsInit ==
    /\ stats = NoStatsResult
    /\ MenuInit /\ RunInit /\ RetryInit /\ PartInit /\ LogInit

Init ==
    /\ files \in Installations
    /\ scoresFile \in InitialScores
    /\ reviewFile = NoReview
    /\ clock = 1
    /\ pc = "start"
    /\ status = ""
    /\ current_topic = DefaultTopic
    /\ sets_data = <<>>
    /\ LocalsInit

\* locals of a call that has returned are out of scope
FreshMenu ==
    /\ set_questions' = <<>> /\ combined_title' = "" /\ set_id_for_scores' = ""
    /\ max_q' = None
FreshRun ==
    /\ qs' = <<>> /\ i' = 0 /\ score' = 0 /\ wrong_indices' = <<>> /\ answered' = <<>>
FreshRetry == to_retry' = <<>> /\ ri' = 0 /\ retryLog' = NoRetry
FreshPart ==
    /\ curriculum' = NoCurriculum /\ sec' = 0 /\ order' = <<>> /\ k' = 0
    /\ total_score' = 0 /\ total_questions' = 0

\* an input() call returns: the histories record where and what
Read(line) ==
    /\ lastPrompt' = pc
    /\ lastInput' = IF pc \in MenuPrompts THEN line ELSE <<>>

SetIds(sd) == {sd[n].set_id : n \in 1..Len(sd)}

\* a session starts at most MaxRuns scored runs
CanRun == clock <= MaxRuns

(***************************************************************************)
(* Continuations: the code from one input() call up to the next            *)
(***************************************************************************)
\* main_menu returns to the mode loop when that is where it was called from
ReturnFromMainMenu ==
    pc' = IF CurriculumExists(files, current_topic) THEN "mode_menu" ELSE "exit"

\* main_menu up to its first prompt
EnterMainMenu(sd) ==
    IF sd = <<>>
    THEN /\ pc' = IF CurriculumExists(files, current_topic') THEN "mode_menu" ELSE "exit"
         /\ UNCHANGED <<stats, status>>
    ELSE LET r == get_last_and_best(SetIds(sd), scoresFile) IN
         /\ stats' = r
         /\ IF r.err
            THEN pc' = "crashed" /\ status' = "ZeroDivisionError"
            ELSE pc' = "set_menu" /\ status' = status

\* __main__ once the topic is known
AfterTopic(sd) ==
    IF sd = <<>> /\ ~CurriculumExists(files, current_topic')
    THEN pc' = "exit" /\ status' = "SystemExit(1)" /\ stats' = stats
    ELSE IF CurriculumExists(files, current_topic')
    THEN pc' = "mode_menu" /\ UNCHANGED <<stats, status>>
    ELSE EnterMainMenu(sd)

\* 1 <= n <= hi, the range test of the topic and set menus
InRange(n, hi) == 1 <= n /\ n <= hi

\* a runner that counts every answer as correct
ScoreAfterAlways(s, correct) == s + 1

\* score += 1 on a correct answer
ScoreAfter(s, correct) == IF correct THEN s + 1 ELSE s

\* a runner that records the question number num = i + 1 instead of i
WrongAfterNum(wrong, correct, idx) == IF correct THEN wrong ELSE Append(wrong, idx + 1)

\* a runner that records the index of every question asked
WrongAfterAlways(wrong, correct, idx) == Append(wrong, idx)

\* a running total that keeps the latest section only
TotalAfterLatest(total, add) == add

\* total_score += score; total_questions += total
TotalAfter(total, add) == total + add

\* wrong_indices.append(i) on an incorrect answer
WrongAfter(wrong, correct, idx) == IF correct THEN wrong ELSE Append(wrong, idx)

\* export_wrong_answers: the file is rewritten with a header and one block
\* per wrong index
ExportLines(questions_list, wrong, set_title, now) ==
    <<HeaderLines(set_title, now)>>
        \o [n \in 1..Len(wrong) |-> BlockLines(Pick(questions_list, wrong)[n])]

\* an export that opens the file with mode "a"
export_wrong_answers_append(file, questions_list, wrong, set_title, now) ==
    [kind |-> "ok",
     lines |-> file.lines \o ExportLines(questions_list, wrong, set_title, now)]

\* open(REVIEW_FILE, "w"): whatever the file held is replaced
export_wrong_answers(file, questions_list, wrong, set_title, now) ==
    [kind |-> "ok", lines |-> ExportLines(questions_list, wrong, set_title, now)]

\* main_menu after run_set has returned (score, total, wrong_indices, qs)
MainMenuAfterRunSet(score2, total, wrong2) ==
    /\ scoresFile' = save_score(scoresFile, set_id_for_scores, combined_title,
                                score2, total, clock)
    /\ clock' = clock + 1
    /\ reviewFile' = reviewFile
    /\ IF wrong2 # <<>> THEN pc' = "retry_prompt" ELSE ReturnFromMainMenu

\* retry_wrong up to its first prompt; next is where its caller goes on
StartRetry(retryPc, next) ==
    IF wrong_indices = <<>>
    THEN pc' = next /\ UNCHANGED retryVars
    ELSE /\ to_retry' = Pick(qs, wrong_indices)
         /\ ri' = 0
         /\ retryLog' = [active |-> TRUE, done |-> FALSE, questions |-> qs,
                         wrong |-> wrong_indices, shown |-> <<>>,
                         before |-> scoresFile]
         /\ pc' = retryPc

\* run_part1 after show_intro: the check, if it has questions
Part1Check(cur) ==
    IF cur.check # <<>>
    THEN /\ pc' = "p1_check"
         /\ qs' = cur.check /\ i' = 0 /\ score' = 0 /\ answered' = <<>>
         /\ wrong_indices' = <<>>
    ELSE pc' = "p1_return" /\ FreshRun

\* run_part1 up to its first prompt
StartPart1 ==
    LET cur == files.curricula[current_topic.curriculum] IN
    IF cur.kind # "ok"
    THEN pc' = "mode_menu" /\ curriculum' = NoCurriculum /\ sec' = 0 /\ FreshRun
    ELSE /\ curriculum' = cur
         /\ IF cur.intro > 0
            THEN pc' = "p1_intro" /\ sec' = 1 /\ FreshRun
            ELSE sec' = 0 /\ Part1Check(cur)

\* run_part2's loop over practice_order from position from on, up to the
\* next prompt: the next section that has questions, or the end of Part 2
NextSection(from, cur, ord, ts, tq) ==
    LET live == {j \in from..Len(ord) :
                    /\ cur.practice[ord[j]].present
                    /\ cur.practice[ord[j]].questions # <<>>}
    IN  /\ total_score' = ts
        /\ total_questions' = tq
        /\ IF live # {}
           THEN LET j == CHOOSE x \in live : \A y \in live : x <= y IN
                /\ k' = j
                /\ qs' \in Shuffles(cur.practice[ord[j]].questions)
                /\ curriculum' = ShuffledSection(cur, ListCopy(ord[j]), qs')
                /\ i' = 0 /\ score' = 0 /\ wrong_indices' = <<>> /\ answered' = <<>>
                /\ pc' = "p2_section"
                /\ UNCHANGED diskVars
           ELSE /\ curriculum' = cur
                /\ scoresFile' = save_score(scoresFile, "part2_full",
                                            "Part 2 - Practice", ts, tq, clock)
                /\ clock' = clock + 1
                /\ reviewFile' = reviewFile
                /\ k' = Len(ord) + 1
                /\ pc' = "p2_return"
                /\ FreshRun

\* run_part2 up to its first prompt
StartPart2 ==
    LET cur == files.curricula[current_topic.curriculum]
        ord == IF cur.practice_order # <<>> THEN cur.practice_order ELSE DefaultOrder
    IN  IF cur.kind # "ok"
        THEN /\ pc' = "mode_menu"
             /\ curriculum' = NoCurriculum /\ order' = <<>> /\ k' = 0
             /\ total_score' = 0 /\ total_questions' = 0
             /\ FreshRun
             /\ UNCHANGED diskVars
        ELSE /\ order' = ord
             /\ NextSection(1, cur, ord, 0, 0)

(***************************************************************************)
(* Actions: one per input() call, from the line read to the next prompt    *)
(***************************************************************************)
\* __main__ up to its first prompt
Main ==
    /\ pc = "start"
    /\ UNCHANGED <<envVars, diskVars, menuVars, runVars, retryVars, partVars,
                   histVars, askLog>>
    /\ IF files.manifest.kind = "invalid"
       THEN /\ pc' = "crashed" /\ status' = "JSONDecodeError"
            /\ UNCHANGED <<topicVars, stats>>
       ELSE IF files.manifest.kind = "ok" /\ files.manifest.topics # <<>>
       THEN pc' = "topic_menu" /\ UNCHANGED <<topicVars, stats, status>>
       ELSE /\ current_topic' = current_topic
            /\ sets_data' = SetsOf(AllData(files), "sets")
            /\ AfterTopic(sets_data')

\* "Choose a topic (number): "
TopicMenu(line) ==
    /\ pc = "topic_menu"
    /\ Read(line)
    /\ UNCHANGED <<envVars, diskVars, menuVars, runVars, retryVars, partVars, askLog>>
    /\ LET t_choice == Strip(line)
           idx == ParseInt(t_choice)
           topics == files.manifest.topics
       IN  IF t_choice = <<"0">>
           THEN pc' = "exit" /\ status' = "SystemExit(0)" /\ UNCHANGED <<topicVars, stats>>
           ELSE IF idx.ok /\ InRange(idx.val, Len(topics))
           THEN /\ current_topic' = topics[idx.val]
                /\ sets_data' = SetsOf(AllData(files), current_topic'.questions_key)
                /\ AfterTopic(sets_data')
           ELSE pc' = "topic_menu" /\ UNCHANGED <<topicVars, stats, status>>

\* "Choose 1, 2, 3, or 0: "; the locals of the call that returned to the
\* menu are gone
ModeMenu(line) ==
    /\ pc = "mode_menu"
    /\ Read(line)
    /\ FreshMenu
    /\ FreshRetry
    /\ UNCHANGED <<envVars, topicVars, askLog>>
    /\ LET choice == Strip(line) IN
       CASE choice = <<"0">> ->
              /\ pc' = "exit"
              /\ stats' = NoStatsResult /\ FreshRun /\ FreshPart
              /\ UNCHANGED <<diskVars, status>>
         [] choice = <<"1">> ->
              /\ CanRun
              /\ StartPart1
              /\ stats' = NoStatsResult
              /\ order' = <<>> /\ k' = 0 /\ total_score' = 0 /\ total_questions' = 0
              /\ UNCHANGED <<diskVars, status>>
         [] choice = <<"2">> ->
              /\ CanRun
              /\ StartPart2
              /\ stats' = NoStatsResult /\ sec' = 0
              /\ UNCHANGED status
         [] choice = <<"3">> ->
              /\ IF sets_data # <<>>
                 THEN EnterMainMenu(sets_data)
                 ELSE pc' = "mode_menu" /\ stats' = NoStatsResult /\ status' = status
              /\ FreshRun /\ FreshPart
              /\ UNCHANGED diskVars
         [] OTHER ->
              /\ pc' = "mode_menu"
              /\ stats' = NoStatsResult /\ FreshRun /\ FreshPart
              /\ UNCHANGED <<diskVars, status>>

\* show_intro: "Press Enter to continue..." after each intro section
show_intro(line) ==
    /\ pc = "p1_intro"
    /\ Read(line)
    /\ UNCHANGED <<envVars, diskVars, topicVars, stats, status, menuVars, retryVars,
                   curriculum, order, k, total_score, total_questions, askLog>>
    /\ IF sec < curriculum.intro
       THEN pc' = "p1_intro" /\ sec' = sec + 1 /\ UNCHANGED runVars
       ELSE sec' = sec /\ Part1Check(curriculum)

\* run_check: one answer to a check question; after the last one run_part1
\* saves the score
run_check(line) ==
    /\ pc = "p1_check"
    /\ Read(line)
    /\ UNCHANGED <<envVars, topicVars, stats, status, menuVars, retryVars, partVars,
                   askLog, qs, wrong_indices, reviewFile>>
    /\ LET r == Ask(Q(qs[i + 1]), line)
           score2 == ScoreAfter(score, r.correct)
       IN  IF ~r.accepted
           THEN pc' = "p1_check" /\ UNCHANGED <<i, score, answered, scoresFile, clock>>
           ELSE /\ i' = i + 1
                /\ score' = score2
                /\ answered' = Append(answered, [q |-> qs[i + 1], correct |-> r.correct])
                /\ IF i + 1 < Len(qs)
                   THEN pc' = "p1_check" /\ UNCHANGED <<scoresFile, clock>>
                   ELSE /\ scoresFile' = save_score(scoresFile, "part1_check",
                                                    "Part 1 - Test", score2, Len(qs),
                                                    clock)
                        /\ clock' = clock + 1
                        /\ pc' = "p1_return"

\* run_part1: "Press Enter to return to menu..."
Part1Return(line) ==
    /\ pc = "p1_return"
    /\ Read(line)
    /\ pc' = "mode_menu"
    /\ UNCHANGED <<envVars, diskVars, topicVars, stats, status, menuVars, runVars,
                   retryVars, partVars, askLog>>

\* run_practice_section: one answer; after the last one run_part2 adds the
\* section to its totals and saves the section's score
run_practice_section(line) ==
    /\ pc = "p2_section"
    /\ Read(line)
    /\ UNCHANGED <<envVars, topicVars, stats, status, menuVars, retryVars, curriculum,
                   sec, order, k, askLog, qs, reviewFile>>
    /\ LET r == Ask(Q(qs[i + 1]), line)
           score2 == ScoreAfter(score, r.correct)
           wrong2 == WrongAfter(wrong_indices, r.correct, i)
           section == curriculum.practice[order[k]]
       IN  IF ~r.accepted
           THEN pc' = "p2_section"
                /\ UNCHANGED <<i, score, wrong_indices, answered, scoresFile, clock,
                               total_score, total_questions>>
           ELSE /\ i' = i + 1
                /\ score' = score2
                /\ wrong_indices' = wrong2
                /\ answered' = Append(answered, [q |-> qs[i + 1], correct |-> r.correct])
                /\ IF i + 1 < Len(qs)
                   THEN pc' = "p2_section"
                        /\ UNCHANGED <<scoresFile, clock, total_score, total_questions>>
                   ELSE /\ total_score' = TotalAfter(total_score, score2)
                        /\ total_questions' = TotalAfter(total_questions, Len(qs))
                        /\ scoresFile' = save_score(scoresFile, Part2Id(order[k]),
                                                    section.title, score2, Len(qs), clock)
                        /\ clock' = clock + 1
                        /\ pc' = IF wrong2 # <<>> THEN "p2_retry_prompt"
                                 ELSE "p2_continue"

\* run_part2: "Retry the questions you got wrong in this section? (y/n): "
Part2RetryPrompt(line) ==
    /\ pc = "p2_retry_prompt"
    /\ Read(line)
    /\ UNCHANGED <<envVars, diskVars, topicVars, stats, status, menuVars, runVars,
                   partVars, askLog>>
    /\ IF StartsWithY(line)
       THEN StartRetry("p2_retry", "p2_continue")
       ELSE pc' = "p2_continue" /\ UNCHANGED retryVars

\* retry_wrong: one answer to a retried question; nothing is scored
retry_wrong(line) ==
    /\ pc \in {"retry", "p2_retry"}
    /\ Read(line)
    /\ UNCHANGED <<envVars, diskVars, topicVars, stats, status, menuVars, runVars,
                   partVars, askLog, to_retry>>
    /\ LET r == Ask(Q(to_retry[ri + 1]), line) IN
       IF ~r.accepted
       THEN UNCHANGED <<pc, ri, retryLog>>
       ELSE /\ ri' = ri + 1
            /\ retryLog' = [retryLog EXCEPT !.shown = Append(@, to_retry[ri + 1]),
                                            !.done = (ri + 1 = Len(to_retry))]
            /\ pc' = IF ri + 1 < Len(to_retry) THEN pc
                     ELSE IF pc = "retry" THEN "export_prompt" ELSE "p2_continue"

\* run_part2: "Press Enter to continue to the next section..."
Part2Continue(line) ==
    /\ pc = "p2_continue"
    /\ Read(line)
    /\ retryLog' = NoRetry
    /\ NextSection(k + 1, curriculum, order, total_score, total_questions)
    /\ UNCHANGED <<envVars, topicVars, stats, status, menuVars, to_retry, ri,
                   sec, order, askLog>>

\* run_part2: "Press Enter to return to menu..."
Part2Return(line) ==
    /\ pc = "p2_return"
    /\ Read(line)
    /\ pc' = "mode_menu"
    /\ UNCHANGED <<envVars, diskVars, topicVars, stats, status, menuVars, runVars,
                   retryVars, partVars, askLog>>

\* all_questions: the questions of every set, in set order
RECURSIVE AllQuestions(_)
AllQuestions(sd) ==
    IF sd = <<>> THEN <<>> ELSE Head(sd).questions \o AllQuestions(Tail(sd))

\* main_menu: "Choose a set (number): "; a valid choice goes on through
\* show_scores_summary, which calls get_last_and_best again
SetMenu(line) ==
    /\ pc = "set_menu"
    /\ Read(line)
    /\ UNCHANGED <<envVars, diskVars, topicVars, runVars, retryVars, partVars,
                   askLog, max_q>>
    /\ LET choice == Strip(line)
           n_choice == ParseInt(choice)
           n == Len(sets_data)
       IN  IF choice = <<"0">>
           THEN /\ ReturnFromMainMenu
                /\ UNCHANGED <<stats, status, set_questions, combined_title,
                               set_id_for_scores>>
           ELSE IF n_choice.ok /\ InRange(n_choice.val, n + 1)
           THEN /\ CanRun
                /\ IF n_choice.val = n + 1
                   THEN /\ set_questions' = AllQuestions(sets_data)
                        /\ combined_title' = "All sets combined"
                        /\ set_id_for_scores' = "all"
                   ELSE /\ set_questions' = sets_data[n_choice.val].questions
                        /\ combined_title' = sets_data[n_choice.val].title
                        /\ set_id_for_scores' = sets_data[n_choice.val].set_id
                /\ stats' = stats
                /\ IF get_last_and_best(SetIds(sets_data), scoresFile).err
                   THEN pc' = "crashed" /\ status' = "ZeroDivisionError"
                   ELSE pc' = "ask_max" /\ status' = status
           ELSE /\ pc' = "set_menu"
                /\ UNCHANGED <<stats, status, set_questions, combined_title,
                               set_id_for_scores>>

\* main_menu: "How many to attempt? (Enter for all): "
AskMax(line) ==
    /\ pc = "ask_max"
    /\ Read(line)
    /\ UNCHANGED <<envVars, diskVars, topicVars, stats, status, runVars, retryVars,
                   partVars, askLog, set_questions, combined_title, set_id_for_scores>>
    /\ LET use_max == Strip(line)
           n == ParseInt(use_max)
           total_available == Len(set_questions)
       IN  max_q' = IF use_max = <<>> THEN None
                    ELSE IF n.ok THEN Some(Max(1, Min(n.val, total_available)))
                    ELSE Some(total_available)
    /\ pc' = "ask_shuffle"

\* main_menu: "Shuffle order? (y/n, default n): ", then run_set up to its
\* first question
AskShuffle(line) ==
    /\ pc = "ask_shuffle"
    /\ Read(line)
    /\ UNCHANGED <<envVars, current_topic, stats, status, menuVars, retryVars,
                   partVars, askLog>>
    /\ LET origin == IF set_id_for_scores = "all" THEN "new" ELSE set_id_for_scores
       IN  \E r \in RunSetOutcomes(set_questions, StartsWithY(line), max_q) :
               /\ qs' = r.qs
               /\ sets_data' = IF StartsWithY(line)
                                THEN ShuffledSets(sets_data, ListCopy(origin), r.shuffled)
                                ELSE sets_data
    /\ i' = 0 /\ score' = 0 /\ wrong_indices' = <<>> /\ answered' = <<>>
    /\ IF Len(qs') = 0
       THEN MainMenuAfterRunSet(0, 0, <<>>)
       ELSE pc' = "run_set" /\ UNCHANGED diskVars

\* run_set: one answer; after the last one main_menu saves the score
run_set(line) ==
    /\ pc = "run_set"
    /\ Read(line)
    /\ UNCHANGED <<envVars, topicVars, stats, status, menuVars, retryVars, partVars,
                   askLog, qs>>
    /\ LET r == Ask(Q(qs[i + 1]), line)
           score2 == ScoreAfter(score, r.correct)
           wrong2 == WrongAfter(wrong_indices, r.correct, i)
       IN  IF ~r.accepted
           THEN pc' = "run_set" /\ UNCHANGED <<i, score, wrong_indices, answered, diskVars>>
           ELSE /\ i' = i + 1
                /\ score' = score2
                /\ wrong_indices' = wrong2
                /\ answered' = Append(answered, [q |-> qs[i + 1], correct |-> r.correct])
                /\ IF i + 1 < Len(qs)
                   THEN pc' = "run_set" /\ UNCHANGED diskVars
                   ELSE MainMenuAfterRunSet(score2, Len(qs), wrong2)

\* main_menu: "Retry the questions you got wrong? (y/n): "
RetryPrompt(line) ==
    /\ pc = "retry_prompt"
    /\ Read(line)
    /\ UNCHANGED <<envVars, diskVars, topicVars, stats, status, menuVars, runVars,
                   partVars, askLog>>
    /\ IF StartsWithY(line)
       THEN StartRetry("retry", "export_prompt")
       ELSE pc' = "export_prompt" /\ UNCHANGED retryVars

\* main_menu: "Save wrong answers to a file for review? (y/n): "
ExportPrompt(line) ==
    /\ pc = "export_prompt"
    /\ Read(line)
    /\ UNCHANGED <<envVars, scoresFile, clock, topicVars, stats, status, menuVars,
                   runVars, to_retry, ri, partVars, askLog>>
    /\ retryLog' = NoRetry
    /\ reviewFile' = IF StartsWithY(line)
                     THEN export_wrong_answers(reviewFile, qs, wrong_indices,
                                               combined_title, clock)
                     ELSE reviewFile
    /\ ReturnFromMainMenu

Next ==
    \/ Main
    \/ \E line \in MenuLines : TopicMenu(line)
    \/ \E line \in MenuLines : ModeMenu(line)
    \/ \E line \in MenuLines : SetMenu(line)
    \/ \E line \in EnterLines : show_intro(line)
    \/ \E line \in AnswerLines : run_check(line)
    \/ \E line \in EnterLines : Part1Return(line)
    \/ \E line \in AnswerLines : run_practice_section(line)
    \/ \E line \in YesNoLines : Part2RetryPrompt(line)
    \/ \E line \in AnswerLines : retry_wrong(line)
    \/ \E line \in EnterLines : Part2Continue(line)
    \/ \E line \in EnterLines : Part2Return(line)
    \/ \E line \in CountLines : AskMax(line)
    \/ \E line \in YesNoLines : AskShuffle(line)
    \/ \E line \in AnswerLines : run_set(line)
    \/ \E line \in YesNoLines : RetryPrompt(line)
    \/ \E line \in YesNoLines : ExportPrompt(line)

Spec == Init /\ [][Next]_vars

(***************************************************************************)
(* Properties of the session                                               *)
(***************************************************************************)
History == load_scores(scoresFile)

\* h2 is h with exactly one entry added at the end
OneAppended(h, h2) == Len(h2) = Len(h) + 1 /\ SubSeq(h2, 1, Len(h)) = h

CorrectCount(log) == Cardinality({j \in 1..Len(log) : log[j].correct})

\* C1: the score history is append-only: every step of the session either
\* leaves the score file as it is or rewrites it as the history it held with
\* exactly one entry added at the end; no entry is ever removed or altered.
C1_AppendOnly ==
    [][ \/ scoresFile' = scoresFile
        \/ /\ scoresFile'.kind = "ok"
           /\ OneAppended(load_scores(scoresFile), load_scores(scoresFile')) ]_vars

\* an entry left by an earlier session is still first after two saves
C1_Witness ==
    /\ Len(History) = 3
    /\ History[1] = Entry("s1", "Set 1", 1, 1, 0)
    /\ History[2].date = 1 /\ History[3].date = 2

\* C2: every completed run is recorded exactly once: the step that ends a
\* free-practice run, a Part 1 check, a Part 2 section or Part 2 itself adds
\* one entry with that run's key, the number of correct answers given and
\* the number of questions asked; no other step changes the history.
C2_RecordedOnce ==
    [][ LET h == load_scores(scoresFile)
            h2 == load_scores(scoresFile')
            new == h2[Len(h2)]
            Added(id, sc, tot) ==
                /\ OneAppended(h, h2)
                /\ new.set_id = id /\ new.score = sc /\ new.total = tot
        IN  CASE pc \in {"ask_shuffle", "run_set"} /\ pc' \notin {"ask_shuffle", "run_set"} ->
                   /\ Added(set_id_for_scores, CorrectCount(answered'), Len(answered'))
                   /\ Len(answered') = Len(qs')
                   /\ \/ /\ set_id_for_scores = "all"
                         /\ Range(qs') \subseteq Range(AllQuestions(sets_data))
                      \/ \E n \in 1..Len(sets_data) :
                            /\ sets_data[n].set_id = set_id_for_scores
                            /\ Range(qs') \subseteq Range(sets_data[n].questions)
              [] pc = "p1_check" /\ pc' # "p1_check" ->
                   /\ Added("part1_check", CorrectCount(answered'), Len(answered'))
                   /\ Len(answered') = Len(curriculum.check)
              [] pc = "p2_section" /\ pc' # "p2_section" ->
                   /\ Added(Part2Id(order[k]), CorrectCount(answered'), Len(answered'))
                   /\ Len(answered') = Len(curriculum.practice[order[k]].questions)
              [] pc # "p2_return" /\ pc' = "p2_return" ->
                   Added("part2_full", total_score', total_questions')
              [] OTHER -> h2 = h ]_vars

\* a Part 1 check and then a combined free-practice run, both recorded
C2_Witness ==
    /\ Len(History) >= 2
    /\ History[Len(History) - 1].set_id = "part1_check"
    /\ History[Len(History)].set_id = "all"
    /\ History[Len(History)].total = 2
    /\ History[Len(History)].score = 1
    /\ pc = "retry_prompt"

\* C4 (as claimed): get_last_and_best never divides by zero, whatever the
\* stored history: no session ends in a ZeroDivisionError.
C4_NoZeroDivision == status # "ZeroDivisionError"

\* C5 (as claimed): after the line "0" is read at any menu the session has
\* ended, so that no further prompt is issued.
C5_QuitEndsSession ==
    (lastPrompt \in MenuPrompts /\ lastInput = <<"0">>) => pc = "exit"

\* the largest number a menu offers
MenuMax(menu) ==
    CASE menu = "topic_menu" -> Len(files.manifest.topics)
      [] menu = "mode_menu" -> 3
      [] menu = "set_menu" -> Len(sets_data) + 1

\* an empty line, text that is no number, or a number the menu does not offer
InvalidChoice(menu, line) ==
    \/ line = <<>>
    \/ \E j \in 1..Len(line) : line[j] \notin Digits \cup {"-", "+", " "}
    \/ line # <<>> /\ Range(line) \subseteq Digits /\ DigitsVal(line) > MenuMax(menu)
    \/ Len(line) > 1 /\ Head(line) = "-" /\ Range(Tail(line)) \subseteq Digits

\* C6: a line that is no valid choice, read at the topic, mode or set menu,
\* leaves the session at the same menu prompt: it does not end or crash the
\* session, start a run, or change the score history or the review file.
C6_InvalidReprompts ==
    [][ (pc \in MenuPrompts /\ lastPrompt' = pc /\ InvalidChoice(pc, lastInput'))
            => /\ pc' = pc
               /\ status' = status
               /\ scoresFile' = scoresFile
               /\ reviewFile' = reviewFile
               /\ qs' = <<>> /\ curriculum' = NoCurriculum ]_vars

\* the set menu has just rejected a second invalid line in a row
C6_Witness ==
    /\ pc = "set_menu" /\ lastPrompt = "set_menu" /\ lastInput = <<"x">>
    /\ Len(sets_data) = 2

\* the questions of a list at the given zero-based positions, in list order
RECURSIVE AtPositions(_, _, _)
AtPositions(list, positions, from) ==
    IF from > Len(list) THEN <<>>
    ELSE (IF (from - 1) \in positions THEN <<list[from]>> ELSE <<>>)
         \o AtPositions(list, positions, from + 1)

IsPrefix(a, b) == Len(a) <= Len(b) /\ SubSeq(b, 1, Len(a)) = a

\* C7: a retry presents exactly the questions at the wrong indices of the
\* run's as-run list, each once and in their order in that list, and the
\* score file is the same during and after the retry as before it.
C7_RetryExact ==
    retryLog.active =>
        LET expected == AtPositions(retryLog.questions, Range(retryLog.wrong), 1) IN
        /\ scoresFile = retryLog.before
        /\ Len(expected) = Len(retryLog.wrong)
        /\ IsPrefix(retryLog.shown, expected)
        /\ retryLog.done <=> retryLog.shown = expected
        /\ retryLog.done <=> pc \notin {"retry", "p2_retry"}

\* a finished retry of both questions of a two-question list
C7_Witness ==
    /\ retryLog.active /\ retryLog.done
    /\ Len(retryLog.questions) = 2
    /\ retryLog.wrong = <<0, 1>>
    /\ Len(retryLog.shown) = 2

\* C8: every recorded wrong index is a position of the as-run list, and the
\* answer given at that position, to the question at that position, was
\* incorrect.
C8_WrongIndicesValid ==
    \A j \in 1..Len(wrong_indices) :
        LET w == wrong_indices[j] IN
        /\ w \in 0..(Len(qs) - 1)
        /\ w + 1 <= Len(answered)
        /\ answered[w + 1] = [q |-> qs[w + 1], correct |-> FALSE]

\* a shuffled run whose second question was answered incorrectly
C8_Witness ==
    /\ pc = "retry_prompt"
    /\ set_questions = <<"q1", "q2">> /\ qs = <<"q2", "q1">>
    /\ wrong_indices = <<1>>

\* C14 (as claimed): invalid JSON in the question bank, the manifest, a
\* curriculum or the score history never ends the session abnormally: no
\* session stops on an undecoded file.
C14_InvalidSourceNeverAborts == ~(pc = "crashed" /\ status = "JSONDecodeError")

\* C15 (as claimed): the topic menu is shown only when the manifest declares
\* more than one topic, and the mode menu only when the current topic's
\* curriculum file exists.
C15_ConditionalMenus ==
    /\ pc = "topic_menu" =>
          files.manifest.kind = "ok" /\ Len(files.manifest.topics) > 1
    /\ pc = "mode_menu" => CurriculumExists(files, current_topic)

\* C16 (as claimed): every persisted score entry has total >= 1.
C16_TotalAtLeastOne ==
    \A n \in 1..Len(History) : History[n].total >= 1

\* the sum of the field f of the entries h[from..to]
RECURSIVE SumOf(_, _, _, _)
SumOf(h, f, from, to) ==
    IF from > to THEN 0 ELSE h[from][f] + SumOf(h, f, from + 1, to)

SectionIds == {Part2Id(key) : key \in PracticeKeys}

\* where the section entries that end just before entry n begin
RunStart(n) ==
    CHOOSE j \in 1..n :
        /\ \A m \in j..(n - 1) : History[m].set_id \in SectionIds
        /\ j > 1 => History[j - 1].set_id \notin SectionIds

\* the keys of practice_order whose section is present and has questions
LiveKeys ==
    SelectSeq(order, LAMBDA key : /\ curriculum.practice[key].present
                                  /\ curriculum.practice[key].questions # <<>>)

\* C20: when a Part 2 run completes, the part2_full entry is the last
\* entry, the section entries of the run stand just before it in
\* practice_order, one per section that was run, and its score and total
\* are the sums of theirs.
C20_FullIsSumOfSections ==
    pc = "p2_return" =>
        LET n == Len(History)
            from == RunStart(n)
        IN  /\ History[n].set_id = "part2_full"
            /\ n - from = Len(LiveKeys)
            /\ \A m \in from..(n - 1) :
                  History[m].set_id = Part2Id(LiveKeys[m - from + 1])
            /\ History[n].score = SumOf(History, "score", from, n - 1)
            /\ History[n].total = SumOf(History, "total", from, n - 1)

\* a run of two sections, 1/2 and 1/1, summed to 2/3
C20_Witness ==
    /\ pc = "p2_return"
    /\ Len(History) >= 3
    /\ LET n == Len(History) IN
       /\ History[n - 2].set_id = "part2_gapfill"
       /\ History[n - 2].score = 1 /\ History[n - 2].total = 2
       /\ History[n - 1].set_id = "part2_makesentence"
       /\ History[n - 1].score = 1 /\ History[n - 1].total = 1
       /\ History[n].score = 2 /\ History[n].total = 3

\* run_set or run_practice_section has returned and its results are still
\* held by its caller
RunnerReturned ==
    \/ lastPrompt \in {"run_set", "p2_section"} /\ pc \notin {"run_set", "p2_section"}
    \/ pc \in {"retry_prompt", "retry", "export_prompt",
               "p2_retry_prompt", "p2_retry", "p2_continue"}

\* C19: what run_set and run_practice_section return satisfies
\* 0 <= score <= total, total = len(as-run list),
\* score + len(wrong_indices) = total, and wrong_indices is strictly
\* increasing; total is the total of the entry saved for the run.
C19_RunnerResult ==
    RunnerReturned =>
        LET total == History[Len(History)].total IN
        /\ total = Len(qs)
        /\ History[Len(History)].score = score
        /\ 0 <= score /\ score <= total
        /\ score + Len(wrong_indices) = total
        /\ \A m, n \in 1..Len(wrong_indices) :
              m < n => wrong_indices[m] < wrong_indices[n]

\* a practice section of two questions, the first answered correctly
C19_Witness ==
    /\ pc = "p2_retry_prompt" /\ lastPrompt = "p2_section"
    /\ Len(qs) = 2 /\ score = 1 /\ wrong_indices = <<1>>

\* what load_questions gave for the current topic
LoadedSets == SetsOf(AllData(files), current_topic.questions_key)

\* C21: running a set or a practice section never changes the loaded
\* question data: whatever was run, shuffled or cut, every set in memory and
\* every section of the curriculum in use has the order and content loaded.
C21_LoadedDataUnchanged ==
    /\ sets_data # <<>> => sets_data = LoadedSets
    /\ curriculum # NoCurriculum =>
          curriculum = files.curricula[current_topic.curriculum]

\* a set of two questions was run shuffled, the second question first
C21_Witness ==
    /\ pc = "retry_prompt" /\ lastPrompt = "run_set"
    /\ set_id_for_scores = "u1"
    /\ qs = <<"q3", "q2">>
    /\ sets_data[1].questions = <<"q2", "q3">>

(***************************************************************************)
(* get_last_and_best over stored histories                                 *)
(***************************************************************************)
ScoreKeys == {"s1", "part1_check"}

FixedFiles == Files(Absent, Bank(SetsA, SetsB), Absent, Absent)

InitScores ==
    /\ files = FixedFiles
    /\ scoresFile \in {Missing, Stored(<<>>)}
    /\ reviewFile = NoReview
    /\ clock = 1
    /\ pc = "stored"
    /\ status = ""
    /\ current_topic = DefaultTopic
    /\ sets_data = SetsA
    /\ LocalsInit

\* save_score called with any key, score and total
SaveScore(set_id, sc, tot) ==
    /\ Len(load_scores(scoresFile)) < MaxLen
    /\ scoresFile' = save_score(scoresFile, set_id, "title", sc, tot, clock)
    /\ clock' = clock + 1
    /\ stats' = NoStatsResult
    /\ status' = ""
    /\ pc' = "stored"
    /\ UNCHANGED <<envVars, reviewFile, topicVars, menuVars, runVars, retryVars,
                   partVars, histVars, askLog>>

\* get_last_and_best called on the stored history
GetLastAndBest ==
    /\ pc = "stored"
    /\ stats' = get_last_and_best(SetIds(sets_data), scoresFile)
    /\ status' = IF stats'.err THEN "ZeroDivisionError" ELSE ""
    /\ pc' = "computed"
    /\ UNCHANGED <<envVars, diskVars, topicVars, menuVars, runVars, retryVars,
                   partVars, histVars, askLog>>

NextScores ==
    \/ \E set_id \in ScoreKeys, tot \in 0..MaxTotal : \E sc \in 0..tot :
          SaveScore(set_id, sc, tot)
    \/ GetLastAndBest

SpecScores == InitScores /\ [][NextScores]_vars

EntriesOf(key) == {j \in 1..Len(History) : History[j].set_id = key}

\* C3: whenever get_last_and_best returns, the best it reports for a key
\* that has entries is the (score, total) of one of that key's entries, and
\* its ratio is at least the ratio of every entry of that key.
C3_BestIsMaximal ==
    (pc = "computed" /\ ~stats.err) =>
        \A key \in {History[j].set_id : j \in 1..Len(History)} :
            /\ key \in DOMAIN stats.map
            /\ LET best == stats.map[key].best IN
               /\ ~best.none
               /\ \E j \in EntriesOf(key) :
                     History[j].score = best.s /\ History[j].total = best.t
               /\ \A j \in EntriesOf(key) :
                     best.s * History[j].total >= History[j].score * best.t

\* the best of three entries of one key is the middle one
C3_Witness ==
    /\ pc = "computed" /\ ~stats.err
    /\ Len(History) = 3
    /\ \A j \in 1..3 : History[j].set_id = "part1_check"
    /\ History[1].score = 1 /\ History[1].total = 2
    /\ History[2].score = 1 /\ History[2].total = 1
    /\ History[3].score = 0 /\ History[3].total = 1
    /\ stats.map["part1_check"].best = Pair(1, 1)

\* the entries of key whose ratio no entry of key exceeds
MaximalOf(key) ==
    {j \in EntriesOf(key) :
        \A m \in EntriesOf(key) :
            History[j].score * History[m].total >= History[m].score * History[j].total}

\* C17: among the entries of a key that tie on the highest ratio, the best
\* reported is the earliest one: a later entry of equal ratio does not replace
\* it, whatever its score and total.
C17_EarliestOfTies ==
    (pc = "computed" /\ ~stats.err) =>
        \A key \in {History[j].set_id : j \in 1..Len(History)} :
            LET first == CHOOSE j \in MaximalOf(key) : \A m \in MaximalOf(key) : j <= m
            IN  stats.map[key].best = Pair(History[first].score, History[first].total)

\* 2/2 stored after 1/1: the same ratio with another score and total
C17_Witness ==
    /\ pc = "computed" /\ ~stats.err
    /\ Len(History) = 2
    /\ \A j \in 1..2 : History[j].set_id = "s1"
    /\ History[1].score = 1 /\ History[1].total = 1
    /\ History[2].score = 2 /\ History[2].total = 2
    /\ stats.map["s1"].best = Pair(1, 1)

\* C18: the last reported for a key is the (score, total) of the most
\* recently appended entry with that key, whatever was appended after it
\* under other keys.
C18_LastIsMostRecent ==
    (pc = "computed" /\ ~stats.err) =>
        \A key \in {History[j].set_id : j \in 1..Len(History)} :
            LET latest == CHOOSE j \in EntriesOf(key) : \A m \in EntriesOf(key) : m <= j
            IN  stats.map[key].last = Pair(History[latest].score, History[latest].total)

\* two entries of one key followed by an entry of another key
C18_Witness ==
    /\ pc = "computed" /\ ~stats.err
    /\ Len(History) = 3
    /\ History[1].set_id = "s1" /\ History[1].score = 1 /\ History[1].total = 1
    /\ History[2].set_id = "s1" /\ History[2].score = 0 /\ History[2].total = 1
    /\ History[3].set_id = "part1_check"
    /\ stats.map["s1"].last = Pair(0, 1)
    /\ stats.map["s1"].best = Pair(1, 1)

(***************************************************************************)
(* run_set as a function of its arguments                                  *)
(***************************************************************************)
QuestionLists == { <<>>, <<"q1">>, <<"q1", "q2">>, <<"q1", "q2", "q3">> }

InitRunSet ==
    /\ files = FixedFiles
    /\ scoresFile = Missing
    /\ reviewFile = NoReview
    /\ clock = 1
    /\ pc = "call_run_set"
    /\ status = ""
    /\ current_topic = DefaultTopic
    /\ sets_data = SetsA
    /\ stats = NoStatsResult
    /\ set_questions \in QuestionLists
    /\ combined_title = "" /\ set_id_for_scores = ""
    /\ max_q \in {None} \cup {Some(n) : n \in (0 - MaxN)..MaxN}
    /\ RunInit /\ RetryInit /\ PartInit /\ LogInit

\* run_set up to its first question
RunSetCall(shuffle) ==
    /\ pc = "call_run_set"
    /\ qs' \in RunSetQuestions(set_questions, shuffle, max_q)
    /\ i' = 0 /\ score' = 0 /\ wrong_indices' = <<>> /\ answered' = <<>>
    /\ pc' = IF Len(qs') = 0 THEN "returned" ELSE "in_run_set"
    /\ UNCHANGED <<envVars, diskVars, topicVars, stats, status, menuVars, retryVars,
                   partVars, histVars, askLog>>

\* run_set: one answer; after the last one it returns
RunSetLoop(line) ==
    /\ pc = "in_run_set"
    /\ LET r == Ask(Q(qs[i + 1]), line) IN
       IF ~r.accepted
       THEN UNCHANGED <<pc, i, score, wrong_indices, answered>>
       ELSE /\ i' = i + 1
            /\ score' = ScoreAfter(score, r.correct)
            /\ wrong_indices' = WrongAfter(wrong_indices, r.correct, i)
            /\ answered' = Append(answered, [q |-> qs[i + 1], correct |-> r.correct])
            /\ pc' = IF i + 1 < Len(qs) THEN "in_run_set" ELSE "returned"
    /\ UNCHANGED <<envVars, diskVars, topicVars, stats, status, menuVars, retryVars,
                   partVars, histVars, askLog, qs>>

NextRunSet ==
    \/ \E shuffle \in BOOLEAN : RunSetCall(shuffle)
    \/ \E line \in AnswerLines : RunSetLoop(line)

SpecRunSet == InitRunSet /\ [][NextRunSet]_vars

\* C9 (as claimed): for every integer N < len(set), run_set with
\* max_questions = N presents exactly N questions and returns total = N.
C9_ExactlyN ==
    (pc = "returned" /\ ~max_q.none /\ max_q.v < Len(set_questions))
        => Len(answered) = max_q.v /\ Len(qs) = max_q.v

\* C9 (amended): for every N with 0 <= N < len(set), run_set with
\* max_questions = N presents exactly N questions and returns total = N.
C9_ExactlyNonNegativeN ==
    (pc = "returned" /\ ~max_q.none /\ 0 <= max_q.v /\ max_q.v < Len(set_questions))
        => Len(answered) = max_q.v /\ Len(qs) = max_q.v

\* two of three questions were presented, in a shuffled order
C9_Witness ==
    /\ pc = "returned"
    /\ set_questions = <<"q1", "q2", "q3">> /\ max_q = Some(2)
    /\ qs = <<"q3", "q1">> /\ Len(answered) = 2

(***************************************************************************)
(* ask_mc_question's prompt loop                                           *)
(***************************************************************************)
McQuestionIds == {"m1", "m2", "m3"}

AskLines ==
    { <<>>, <<"a">>, <<"A">>, <<"b">>, <<"C">>, <<"x">>, <<"2">>, <<" ", "a", " ">> }

InitAsk ==
    /\ files = FixedFiles
    /\ scoresFile = Missing
    /\ reviewFile = NoReview
    /\ clock = 1
    /\ pc = "ask_mc"
    /\ status = ""
    /\ current_topic = DefaultTopic
    /\ sets_data = SetsA
    /\ stats = NoStatsResult
    /\ MenuInit /\ RetryInit /\ PartInit /\ LogInit
    /\ qs \in {<<id>> : id \in McQuestionIds}
    /\ i = 0 /\ score = 0 /\ wrong_indices = <<>> /\ answered = <<>>

\* "Your choice (a/b/c/d): ": one line read by ask_mc_question
AskMc(line) ==
    /\ pc = "ask_mc"
    /\ Len(askLog) < MaxPrompts
    /\ LET r == ask_mc_question(Q(qs[1]), line) IN
       /\ askLog' = Append(askLog, line)
       /\ IF r.accepted
          THEN /\ pc' = "asked"
               /\ answered' = <<[q |-> qs[1], correct |-> r.correct]>>
          ELSE UNCHANGED <<pc, answered>>
    /\ UNCHANGED <<envVars, diskVars, topicVars, stats, status, menuVars, retryVars,
                   partVars, histVars, qs, i, score, wrong_indices>>

NextAsk == \E line \in AskLines : AskMc(line)

SpecAsk == InitAsk /\ [][NextAsk]_vars

\* a line names a label when the two are equal once the line is trimmed and
\* case is ignored
NamesLabel(line, q) == \E label \in q.options : Lower(Strip(line)) = Lower(label)

\* C10 (as claimed): the prompt loop ends exactly at the first line that
\* equals one of the question's labels ignoring case.
C10_AcceptsLabelsIgnoringCase ==
    /\ \A j \in 1..(Len(askLog) - 1) : ~NamesLabel(askLog[j], Q(qs[1]))
    /\ askLog # <<>> =>
          (pc = "asked" <=> NamesLabel(askLog[Len(askLog)], Q(qs[1])))

(***************************************************************************)
(* ask_open_question and normalize_answer on drawn lines                   *)
(***************************************************************************)
OpenQuestionIds == {"o1", "o2", "o3"}

LineAlphabet == {"a", "A", "b", " "}

\* every line of at most MaxLine characters
Lines == UNION {[1..m -> LineAlphabet] : m \in 0..MaxLine}

InitAnswer ==
    /\ files = FixedFiles
    /\ scoresFile = Missing
    /\ reviewFile = NoReview
    /\ clock = 1
    /\ pc = "ask_open"
    /\ status = ""
    /\ current_topic = DefaultTopic
    /\ sets_data = SetsA
    /\ stats = NoStatsResult
    /\ MenuInit /\ RetryInit /\ PartInit /\ LogInit
    /\ qs \in {<<id>> : id \in OpenQuestionIds}
    /\ i = 0 /\ score = 0 /\ wrong_indices = <<>> /\ answered = <<>>

\* "Your answer: ": the one line ask_open_question reads and judges
AskOpen(line) ==
    /\ pc = "ask_open"
    /\ askLog' = <<line>>
    /\ answered' = <<[q |-> qs[1],
                     correct |-> ask_open_question(Q(qs[1]), line).correct]>>
    /\ pc' = "asked_open"
    /\ UNCHANGED <<envVars, diskVars, topicVars, stats, status, menuVars, retryVars,
                   partVars, histVars, qs, i, score, wrong_indices>>

\* normalize_answer applied to the line read, and then to its own result
NormalizeAnswer ==
    /\ pc = "asked_open"
    /\ Len(askLog) < 3
    /\ askLog' = Append(askLog, normalize_answer(askLog[Len(askLog)]))
    /\ UNCHANGED <<envVars, diskVars, topicVars, stats, status, menuVars, retryVars,
                   partVars, histVars, runVars, pc>>

NextAnswer ==
    \/ \E line \in Lines : AskOpen(line)
    \/ NormalizeAnswer

SpecAnswer == InitAnswer /\ [][NextAnswer]_vars

\* runs of spaces collapsed to one space
RECURSIVE Collapse(_)
Collapse(s) ==
    IF Len(s) < 2 THEN s
    ELSE IF s[1] = " " /\ s[2] = " " THEN Collapse(Tail(s))
    ELSE <<s[1]>> \o Collapse(Tail(s))

\* s without its leading and trailing spaces
RECURSIVE Trimmed(_)
Trimmed(s) ==
    IF s = <<>> THEN s
    ELSE IF Head(s) = " " THEN Trimmed(Tail(s))
    ELSE IF s[Len(s)] = " " THEN Trimmed(SubSeq(s, 1, Len(s) - 1))
    ELSE s

\* trim, lower-case, collapse whitespace runs
Normalized(s) == Collapse(Lower(Trimmed(s)))

\* C11: an open answer is judged correct exactly when its normalization
\* (trim, lower-case, collapse whitespace runs) equals the normalization of
\* some accepted answer; with no accepted answers it is judged incorrect.
C11_CorrectIffNormalizedMatch ==
    pc = "asked_open" =>
        LET accepted == Q(qs[1]).answers IN
        /\ answered[1].correct <=>
              \E n \in 1..Len(accepted) : Normalized(askLog[1]) = Normalized(accepted[n])
        /\ accepted = <<>> => ~answered[1].correct

\* " b" matches the second accepted answer, "B", of a two-answer question
C11_Witness ==
    /\ pc = "asked_open" /\ qs = <<"o1">>
    /\ askLog[1] = <<" ", "b">>
    /\ answered[1].correct

\* C12: normalize_answer is idempotent: applied to its own result it
\* returns that result.
C12_NormalizeIdempotent ==
    Len(askLog) = 3 => askLog[3] = askLog[2]

\* a line of three spaces normalized twice
C12_Witness ==
    /\ Len(askLog) = 3
    /\ askLog[1] = <<" ", " ", " ">>
    /\ askLog[2] = <<>>

(***************************************************************************)
(* export_wrong_answers called repeatedly on drawn arguments               *)
(***************************************************************************)
\* the strictly increasing index lists valid for a list of n questions
RECURSIVE Ascending(_, _)
Ascending(from, n) ==
    IF from >= n THEN {<<>>}
    ELSE Ascending(from + 1, n) \cup {<<from>> \o w : w \in Ascending(from + 1, n)}

ExportTitles == {"Set 1", "Set 2", "All questions"}

InitExport ==
    /\ files = FixedFiles
    /\ scoresFile = Missing
    /\ reviewFile = NoReview
    /\ clock = 1
    /\ pc = "export"
    /\ status = ""
    /\ current_topic = DefaultTopic
    /\ sets_data = SetsA
    /\ stats = NoStatsResult
    /\ MenuInit /\ RunInit /\ RetryInit /\ PartInit /\ LogInit

\* one call export_wrong_answers(questions_list, wrong, set_title); qs,
\* wrong_indices and combined_title keep the arguments of the latest call
Export(questions_list, wrong, set_title) ==
    /\ pc \in {"export", "exported"}
    /\ clock <= MaxExports
    /\ reviewFile' = export_wrong_answers(reviewFile, questions_list, wrong,
                                          set_title, clock)
    /\ qs' = questions_list
    /\ wrong_indices' = wrong
    /\ combined_title' = set_title
    /\ clock' = clock + 1
    /\ pc' = "exported"
    /\ UNCHANGED <<envVars, scoresFile, topicVars, stats, status, set_questions,
                   set_id_for_scores, max_q, i, score, answered, retryVars,
                   partVars, histVars, askLog>>

NextExport ==
    \E questions_list \in QuestionLists :
        \E wrong \in Ascending(0, Len(questions_list)) :
            \E set_title \in ExportTitles : Export(questions_list, wrong, set_title)

SpecExport == InitExport /\ [][NextExport]_vars

\* C13: after any sequence of exports the review file holds exactly the
\* latest call's output, a header and one block per wrong index in index
\* order, with nothing of earlier exports; an empty wrong-index list leaves
\* the header alone.
C13_ReviewIsLatestExport ==
    pc = "exported" =>
        /\ reviewFile.kind = "ok"
        /\ Len(reviewFile.lines) = 1 + Len(wrong_indices)
        /\ reviewFile.lines[1] =
              [kind |-> "header", title |-> combined_title, date |-> clock - 1, q |-> ""]
        /\ \A n \in 1..Len(wrong_indices) :
              /\ reviewFile.lines[n + 1].kind = "block"
              /\ reviewFile.lines[n + 1].q = qs[wrong_indices[n] + 1]
        /\ wrong_indices = <<>> => Len(reviewFile.lines) = 1

\* a third export, with no wrong index, has left the header alone
C13_Witness ==
    /\ pc = "exported" /\ clock = 4
    /\ wrong_indices = <<>> /\ qs = <<"q1", "q2">>
    /\ Len(reviewFile.lines) = 1
    /\ reviewFile.lines[1].title = "All questions"
====
